---- MODULE Spec2Model ----
(***************************************************************************)
(* Model of kmod's string-keyed hash table, shared/hash.c.                 *)
(*                                                                         *)
(* The table is a fixed array of buckets; every bucket is a sorted array   *)
(* of (key pointer, value pointer) entries that grows and shrinks in units *)
(* of hash->step slots.  Keys are pointers into caller memory (KeyMem);    *)
(* values are opaque pointers.  realloc() may fail at every call.          *)
(***************************************************************************)
EXTENDS Integers, Sequences, FiniteSets, TLC

VARIABLES
    req,        \* the n_buckets argument hash_new() was called with
    hash,       \* struct hash: count, step, n_buckets, free_value, buckets[]
    alive,      \* FALSE once hash_free() has released the table
    op,         \* the last call: [name, key, value]
    ret,        \* the last call's return value
    freed,      \* values passed to free_value() by the last call, in order
    alloc,      \* what realloc() did in the last call: "none" | "ok" | "fail"
    absmap,     \* ghost: string -> the value the callers last stored under it
    owed,       \* ghost: per value, occurrences stored minus occurrences destructed
    held,       \* ghost: the key reference the table held for the bytes of the
                \* last call's key when add, add_unique or del was called
    iter,       \* struct hash_iter: [bucket, entry]
    it_state,   \* "none" | "run" | "end" | "past"
    yielded     \* the entries the traversal in progress has returned so far

vars == <<req, hash, alive, op, ret, freed, alloc, absmap, owed, held, iter,
          it_state, yielded>>

-----------------------------------------------------------------------------
(* Bounds of the model *)

NKeys   == 4    \* key pointers the callers pass: 1..NKeys
NValues == 2    \* value pointers the callers pass: 1..NValues
MaxReq  == 2    \* hash_new() is called with n_buckets in 1..MaxReq
MaxPast == 1    \* hash_iter_next() calls made after the end marker
BigReq  == 2049 \* the largest n_buckets hash_new() is asked for in SpecNew
NewKeys == 2    \* key pointers the callers pass in SpecNew: 1..NewKeys
FillKeys == 6   \* key pointers the callers pass in SpecFill: 1..FillKeys

-----------------------------------------------------------------------------
(* Program constants *)

ENOENT == 2
ENOMEM == 12
EEXIST == 17
NULL   == 0
MinStep == 4
MaxStep == 64
StepDiv == 32
W == 32         \* width of unsigned int

-----------------------------------------------------------------------------
(* Caller memory: the strings the key pointers point to, as byte           *)
(* sequences without the terminating NUL.  Pointers 1 and 3 are distinct   *)
(* pointers to equal strings.                                              *)
(*   1 "a"   2 "abcdef"   3 "a"   4 "abcdefg"   5 "ext4"   6 ""   7 "m"    *)
(*   8 "ab"                                                                *)

KeyMem ==
    << <<97>>,
       <<97, 98, 99, 100, 101, 102>>,
       <<97>>,
       <<97, 98, 99, 100, 101, 102, 103>>,
       <<101, 120, 116, 52>>,
       << >>,
       <<109>>,
       <<97, 98>> >>

KeyPtrs == 1..NKeys
Values  == 1..NValues
Str(p)  == KeyMem[p]

-----------------------------------------------------------------------------
(* unsigned int arithmetic modulo 2^W.  A word is the pair of its two      *)
(* halves [hi, lo], each in 0..Half-1, so that no intermediate result      *)
(* leaves the range of the checker's integers.                             *)

Pow2(n) == 2^n
Half    == Pow2(W \div 2)

Word(n) == [hi |-> (n \div Half) % Half, lo |-> n % Half]

RECURSIVE XorBits(_, _, _)
XorBits(x, y, n) ==
    IF n = 0 THEN 0
    ELSE ((x + y) % 2) + 2 * XorBits(x \div 2, y \div 2, n - 1)

RECURSIVE AndBits(_, _, _)
AndBits(x, y, n) ==
    IF n = 0 THEN 0
    ELSE ((x % 2) * (y % 2)) + 2 * AndBits(x \div 2, y \div 2, n - 1)

Xor(a, b) == [hi |-> XorBits(a.hi, b.hi, W \div 2),
              lo |-> XorBits(a.lo, b.lo, W \div 2)]

BitAnd(a, b) == [hi |-> AndBits(a.hi, b.hi, W \div 2),
                 lo |-> AndBits(a.lo, b.lo, W \div 2)]

Shl(a, n) ==
    IF n >= W \div 2
    THEN [hi |-> (a.lo * Pow2(n - W \div 2)) % Half, lo |-> 0]
    ELSE [hi |-> (a.hi * Pow2(n) + (a.lo * Pow2(n)) \div Half) % Half,
          lo |-> (a.lo * Pow2(n)) % Half]

Shr(a, n) ==
    IF n >= W \div 2
    THEN [hi |-> 0, lo |-> a.hi \div Pow2(n - W \div 2)]
    ELSE [hi |-> a.hi \div Pow2(n),
          lo |-> (a.lo \div Pow2(n)) + (a.hi % Pow2(n)) * Pow2(W \div 2 - n)]

Add(a, b) ==
    [hi |-> (a.hi + b.hi + (a.lo + b.lo) \div Half) % Half,
     lo |-> (a.lo + b.lo) % Half]

(* the number a word stands for; used on words below 2^(W-1) only *)
ToNat(a) == a.hi * Half + a.lo

-----------------------------------------------------------------------------
(* get_unaligned() of the uint16_t at key + off: the two bytes at off and  *)
(* off + 1 in the order they are stored (little-endian word assembly)      *)

get_unaligned(key, off) == Word(key[off + 1] + 256 * key[off + 2])

(* hash_superfast: main loop over the 4-byte chunks *)
RECURSIVE MainLoop(_, _, _, _)
MainLoop(key, off, len, h) ==
    IF len = 0 THEN h
    ELSE LET h1  == Add(h, get_unaligned(key, off))
             tmp == Xor(Shl(get_unaligned(key, off + 2), 11), h1)
             h2  == Xor(Shl(h1, 16), tmp)
             h3  == Add(h2, Shr(h2, 11))
         IN  MainLoop(key, off + 4, len - 1, h3)

(* hash_superfast: the 0..3 trailing bytes *)
EndCases(key, off, rem, h) ==
    CASE rem = 3 ->
            LET h1 == Add(h, get_unaligned(key, off))
                h2 == Xor(h1, Shl(h1, 16))
                h3 == Xor(h2, Shl(Word(key[off + 3]), 18))
            IN  Add(h3, Shr(h3, 11))
      [] rem = 2 ->
            LET h1 == Add(h, get_unaligned(key, off))
                h2 == Xor(h1, Shl(h1, 11))
            IN  Add(h2, Shr(h2, 17))
      [] rem = 1 ->
            LET h1 == Add(h, Word(key[off + 1]))
                h2 == Xor(h1, Shl(h1, 10))
            IN  Add(h2, Shr(h2, 1))
      [] OTHER -> h

(* hash_superfast: final avalanche *)
Avalanche(h) ==
    LET h1 == Xor(h, Shl(h, 3))
        h2 == Add(h1, Shr(h1, 5))
        h3 == Xor(h2, Shl(h2, 4))
        h4 == Add(h3, Shr(h3, 17))
        h5 == Xor(h4, Shl(h4, 25))
    IN  Add(h5, Shr(h5, 6))

hash_superfast(key, len) ==
    LET rem == len % 4
        h   == MainLoop(key, 0, len \div 4, Word(len))
    IN  Avalanche(EndCases(key, 4 * (len \div 4), rem, h))

(* the digest of every string of caller memory, computed once *)
RECURSIVE HashUpTo(_)
HashUpTo(n) ==
    IF n = 0 THEN << >>
    ELSE Append(HashUpTo(n - 1), hash_superfast(Str(n), Len(Str(n))))

HashVal == HashUpTo(Len(KeyMem))

(* pos = hashval & (hash->n_buckets - 1), for every string of caller       *)
(* memory and every bucket count hash_new() can be asked for, computed     *)
(* once                                                                    *)
RECURSIVE PosUpTo(_, _, _)
PosUpTo(hv, n, p) ==
    IF p = 0 THEN << >>
    ELSE Append(PosUpTo(hv, n, p - 1), ToNat(BitAnd(hv[p], Word(n - 1))))

RECURSIVE PosTabUpTo(_, _)
PosTabUpTo(hv, n) ==
    IF n = 0 THEN << >>
    ELSE Append(PosTabUpTo(hv, n - 1), PosUpTo(hv, n, Len(hv)))

(* align_power2(): the smallest power of two >= u, 1 for u = 0 *)
RECURSIVE AlignFrom(_, _)
AlignFrom(u, p) == IF p >= u THEN p ELSE AlignFrom(u, 2 * p)
align_power2(u) == AlignFrom(u, 1)

(* the n_buckets arguments of hash_new() in SpecNew: 0, 1, a non-power of *)
(* two, and requests whose n_buckets / 32 lies below, within and above    *)
(* the range of hash->step                                                *)
ReqSeq == <<0, 1, 3, 100, 129, BigReq>>

(* the rows of PosTabUpTo(2 * MaxReq + 1), followed by one row for the    *)
(* bucket count of each of the first i requests of ReqSeq                 *)
RECURSIVE PosTabWith(_, _)
PosTabWith(hv, i) ==
    IF i = 0 THEN PosTabUpTo(hv, 2 * MaxReq + 1)
    ELSE Append(PosTabWith(hv, i - 1),
                PosUpTo(hv, align_power2(ReqSeq[i]), Len(hv)))

PosTab == PosTabWith(HashVal, Len(ReqSeq))

(* the row of PosTab that holds the positions for n buckets *)
Row(n) ==
    IF n <= 2 * MaxReq + 1 THEN n
    ELSE 2 * MaxReq + 1
         + (CHOOSE i \in 1..Len(ReqSeq) : align_power2(ReqSeq[i]) = n)

(* pos taken from the key pointer instead of the digest of its bytes *)
Pos_ByPointer(h, p) == p % h.n_buckets

Pos(h, p) == PosTab[Row(h.n_buckets)][p]

-----------------------------------------------------------------------------
(* strcmp(a, b) on byte sequences: negative, zero or positive *)
RECURSIVE strcmp(_, _)
strcmp(a, b) ==
    IF a = << >> /\ b = << >> THEN 0
    ELSE IF a = << >> THEN 0 - Head(b)
    ELSE IF b = << >> THEN Head(a)
    ELSE IF Head(a) # Head(b) THEN Head(a) - Head(b)
    ELSE strcmp(Tail(a), Tail(b))

-----------------------------------------------------------------------------
(* struct hash_entry; Junk is the content of a slot that was allocated and *)
(* never written (the code never reads such a slot)                        *)

Entry(k, v) == [key |-> k, value |-> v]
Junk        == Entry(NULL, NULL)

(* a bucket as calloc() leaves it: entries == NULL, used == 0, total == 0 *)
EmptyBucket == [nil |-> TRUE, entries |-> << >>, used |-> 0, total |-> 0]

(* hash->step without the upper clamp *)
StepOf_NoCap(n) ==
    IF n \div StepDiv < MinStep THEN MinStep ELSE n \div StepDiv

(* hash->step as hash_new() sets it *)
StepOf(n) ==
    IF n \div StepDiv < MinStep THEN MinStep
    ELSE IF n \div StepDiv > MaxStep THEN MaxStep
    ELSE n \div StepDiv

(* hash_new(), when calloc() succeeds *)
hash_new(n_buckets, free_value) ==
    LET n == align_power2(n_buckets)
    IN  [count      |-> 0,
         step       |-> StepOf(n),
         n_buckets  |-> n,
         free_value |-> free_value,
         buckets    |-> [i \in 0..(n - 1) |-> EmptyBucket]]

-----------------------------------------------------------------------------
(* Helpers on the entries array; C index i is element i + 1 of the sequence *)

At(es, i) == es[i + 1]

(* realloc() to n slots: the old content up to the smaller size is kept *)
Realloc(es, n) ==
    [j \in 1..n |-> IF j <= Len(es) THEN es[j] ELSE Junk]

(* memmove(es + dst, es + src, n * sizeof(struct hash_entry)) *)
memmove(es, dst, src, n) ==
    [j \in 1..Len(es) |->
        IF j - 1 >= dst /\ j - 1 < dst + n /\ (j - 1 - dst + src) < Len(es)
        THEN es[j - dst + src] ELSE es[j]]

(* The slots at and after used hold no entry: the code never reads one     *)
(* before it has written it.  The model forgets what memmove() leaves in   *)
(* them, so that two tables with the same entries are the same state.      *)
Forget(es, used) == [j \in 1..Len(es) |-> IF j <= used THEN es[j] ELSE Junk]

(* es[i] = e *)
Store(es, i, e) == [j \in 1..Len(es) |-> IF j = i + 1 THEN e ELSE es[j]]

hash_entry_cmp(a, b) == strcmp(Str(a.key), Str(b.key))

(* bsearch() over the first n entries: the index found, or -1 *)
RECURSIVE BSearchFrom(_, _, _, _)
BSearchFrom(se, es, l, u) ==
    IF l >= u THEN 0 - 1
    ELSE LET idx == (l + u) \div 2
             c   == hash_entry_cmp(se, At(es, idx))
         IN  IF c < 0 THEN BSearchFrom(se, es, l, idx)
             ELSE IF c > 0 THEN BSearchFrom(se, es, idx + 1, u)
             ELSE idx

(* a search that leaves out the first entry *)
bsearch_NoFirst(se, es, n) == BSearchFrom(se, es, 1, n)

bsearch(se, es, n) == BSearchFrom(se, es, 0, n)

(* the for loop of hash_add()/hash_add_unique(): where it stops and why:   *)
(* "eq" on an equal key, "lt" before a greater key, "end" past the last    *)
RECURSIVE ScanFrom(_, _, _, _)
ScanFrom(key, es, used, i) ==
    IF i >= used THEN [idx |-> i, why |-> "end"]
    ELSE LET c == strcmp(Str(key), Str(At(es, i).key))
         IN  IF c = 0 THEN [idx |-> i, why |-> "eq"]
             ELSE IF c < 0 THEN [idx |-> i, why |-> "lt"]
             ELSE ScanFrom(key, es, used, i + 1)

(* the scan with the test for the insertion point reversed (c > 0) *)
RECURSIVE ScanFrom_Reversed(_, _, _, _)
ScanFrom_Reversed(key, es, used, i) ==
    IF i >= used THEN [idx |-> i, why |-> "end"]
    ELSE LET c == strcmp(Str(key), Str(At(es, i).key))
         IN  IF c = 0 THEN [idx |-> i, why |-> "eq"]
             ELSE IF c > 0 THEN [idx |-> i, why |-> "lt"]
             ELSE ScanFrom_Reversed(key, es, used, i + 1)

LinearScan_Reversed(key, es, used) == ScanFrom_Reversed(key, es, used, 0)

LinearScan(key, es, used) == ScanFrom(key, es, used, 0)

(* realloc(): whether it was called, and if so whether it returned NULL *)
ReallocResult(called, ok) ==
    IF ~called THEN "none" ELSE IF ok THEN "ok" ELSE "fail"

(* a growth check that waits until the bucket is full (used >= total) *)
NeedGrow_Late(b) == b.used >= b.total

(* the growth check at the head of hash_add()/hash_add_unique() *)
NeedGrow(b) == b.used + 1 >= b.total

(* growth by two steps at once *)
Grown_Double(h, b) ==
    [b EXCEPT !.nil = FALSE,
              !.entries = Realloc(b.entries, b.total + 2 * h.step),
              !.total = b.total + 2 * h.step]

Grown(h, b) ==
    [b EXCEPT !.nil = FALSE,
              !.entries = Realloc(b.entries, b.total + h.step),
              !.total = b.total + h.step]

(* the tail without bucket->used++ *)
Inserted_NoUsed(b, s, key, value) ==
    LET es == IF s.why = "lt"
              THEN memmove(b.entries, s.idx + 1, s.idx, b.used - s.idx)
              ELSE b.entries
    IN  [b EXCEPT !.entries = Store(es, s.idx, Entry(key, value))]

(* the tail of both functions: shift, store the new entry, used++ *)
Inserted(b, s, key, value) ==
    LET es == IF s.why = "lt"
              THEN memmove(b.entries, s.idx + 1, s.idx, b.used - s.idx)
              ELSE b.entries
    IN  [b EXCEPT !.entries = Store(es, s.idx, Entry(key, value)),
                  !.used = b.used + 1]

(* the shrink policy at the end of hash_del() *)
NeedShrink(h, b) == (b.used \div h.step) + 1 < b.total \div h.step

(* a shrink to the slots in use plus one, not to a whole number of steps *)
Shrunk_ToFit(h, b) ==
    [b EXCEPT !.entries = Realloc(b.entries, b.used + 1), !.total = b.used + 1]

Shrunk(h, b) ==
    LET n == ((b.used \div h.step) + 1) * h.step
    IN  [b EXCEPT !.entries = Realloc(b.entries, n), !.total = n]

(* the c == 0 branch of hash_add() without entry->key = key *)
Replaced_KeepKey(b, i, key, value) ==
    [b EXCEPT !.entries = Store(b.entries, i, Entry(At(b.entries, i).key, value))]

(* the c == 0 branch of hash_add(): the entry found takes the caller's key *)
(* pointer and value                                                       *)
Replaced(b, i, key, value) ==
    [b EXCEPT !.entries = Store(b.entries, i, Entry(key, value))]

(* the shrink step with bucket->total assigned outside of if (tmp) *)
AfterShrink_TotalAnyway(h, b, ok) ==
    IF ~NeedShrink(h, b) THEN b
    ELSE IF ok THEN Shrunk(h, b)
    ELSE [b EXCEPT !.total = ((b.used \div h.step) + 1) * h.step]

(* the shrink step of hash_del(): a failed realloc() leaves the bucket *)
AfterShrink(h, b, ok) ==
    IF NeedShrink(h, b) /\ ok THEN Shrunk(h, b) ELSE b

(* a walk up the bucket array from bi: the first bucket at or after bi    *)
(* with used > m, or the index the walk stops at when there is none       *)
FirstWith(h, bi, m) ==
    LET S == {i \in bi..(h.n_buckets - 1) : h.buckets[i].used > m}
    IN  IF S # {} THEN CHOOSE i \in S : \A j \in S : i <= j
        ELSE IF bi >= h.n_buckets THEN bi ELSE h.n_buckets

(* the loop of hash_free() stopping one entry early in every bucket *)
RECURSIVE ValuesFrom_OneShort(_, _, _)
ValuesFrom_OneShort(h, bi, ei) ==
    LET b == FirstWith(h, bi, 0)
    IN  IF b >= h.n_buckets THEN << >>
        ELSE IF ei >= h.buckets[b].used - 1 THEN ValuesFrom_OneShort(h, b + 1, 0)
        ELSE <<At(h.buckets[b].entries, ei).value>>
             \o ValuesFrom_OneShort(h, b, ei + 1)

(* the values of the live entries of the table in bucket-major order:      *)
(* the calls hash_free() makes to free_value()                             *)
RECURSIVE ValuesFrom(_, _, _)
ValuesFrom(h, bi, ei) ==
    LET b == FirstWith(h, bi, 0)
    IN  IF b >= h.n_buckets THEN << >>
        ELSE IF ei >= h.buckets[b].used THEN ValuesFrom(h, b + 1, 0)
        ELSE <<At(h.buckets[b].entries, ei).value>> \o ValuesFrom(h, b, ei + 1)

(* ghost: the number of occurrences of v in a sequence of values *)
RECURSIVE Occ(_, _)
Occ(seq, v) ==
    IF seq = << >> THEN 0
    ELSE (IF Head(seq) = v THEN 1 ELSE 0) + Occ(Tail(seq), v)

(* a table that never calls its destructor *)
FreeValue_Never(h, value) == << >>

(* if (hash->free_value) hash->free_value(value): the calls made *)
FreeValue(h, value) == IF h.free_value THEN <<value>> ELSE << >>

-----------------------------------------------------------------------------
(* Ghost state, kept beside the program's: what the callers know           *)

Strings == {Str(p) : p \in 1..Len(KeyMem)}

(* absmap: the value last stored under each string by a call that returned *)
(* 0, NULL when none was or when it was deleted since                      *)
NoMap == [s \in Strings |-> NULL]

AbsAfter(call, r) ==
    IF r # 0 THEN absmap
    ELSE IF call.name \in {"add", "add_unique"}
         THEN [absmap EXCEPT ![Str(call.key)] = call.value]
    ELSE IF call.name = "del"
         THEN [absmap EXCEPT ![Str(call.key)] = NULL]
    ELSE absmap

(* owed: for a table with a destructor, per value the occurrences stored   *)
(* by calls that returned 0 minus the occurrences passed to free_value()   *)
NoOwed == [v \in Values |-> 0]

OwedAfter(call, r, calls) ==
    IF ~hash.free_value THEN owed
    ELSE [v \in Values |->
            owed[v]
            + (IF r = 0 /\ call.name \in {"add", "add_unique"}
                  /\ call.value = v THEN 1 ELSE 0)
            - Occ(calls, v)]

NoIter  == [bucket |-> 0, entry |-> 0 - 1]
Call(name, key, value) == [name |-> name, key |-> key, value |-> value]

DropCursor ==
    /\ iter' = NoIter
    /\ it_state' = "none"
    /\ yielded' = << >>

(* the key reference stored in h for the bytes of key, NULL when there is *)
(* none                                                                   *)
HeldKey(h, key) ==
    LET ks == UNION {{h.buckets[i].entries[j].key : j \in 1..h.buckets[i].used} :
                       i \in 0..(h.n_buckets - 1)}
        ms == IF key = NULL THEN {} ELSE {k \in ks : Str(k) = Str(key)}
    IN  IF ms = {} THEN NULL ELSE CHOOSE k \in ms : TRUE

Ghost ==
    /\ absmap' = AbsAfter(op', ret')
    /\ owed' = OwedAfter(op', ret', freed')
    /\ held' = HeldKey(hash, op'.key)

-----------------------------------------------------------------------------
Start(reqs) ==
    /\ req \in reqs
    /\ \E fv \in BOOLEAN : hash = hash_new(req, fv)
    /\ alloc = "none"
    /\ alive = TRUE
    /\ op = Call("new", NULL, NULL)
    /\ ret = 0
    /\ freed = << >>
    /\ absmap = NoMap
    /\ owed = NoOwed
    /\ iter = NoIter
    /\ it_state = "none"
    /\ yielded = << >>
    /\ held = NULL

(* hash_new(n_buckets, free_value) with n_buckets in 1..MaxReq *)
Init == Start(1..MaxReq)

(* hash_add(hash, key, value); ok: whether realloc(), if called, succeeds *)
hash_add(key, value, ok) ==
    LET pos == Pos(hash, key)
        b0  == hash.buckets[pos]
        b   == IF NeedGrow(b0) THEN Grown(hash, b0) ELSE b0
        s   == LinearScan(key, b.entries, b.used)
    IN
    /\ alive
    /\ op' = Call("add", key, value)
    /\ alloc' = ReallocResult(NeedGrow(b0), ok)
    /\ IF NeedGrow(b0) /\ ~ok
       THEN /\ ret' = 0 - ENOMEM
            /\ freed' = << >>
            /\ UNCHANGED hash
       ELSE IF s.why = "eq"
       THEN /\ freed' = FreeValue(hash, At(b.entries, s.idx).value)
            /\ hash' = [hash EXCEPT !.buckets[pos] =
                         Replaced(b, s.idx, key, value)]
            /\ ret' = 0
       ELSE /\ freed' = << >>
            /\ hash' = [hash EXCEPT
                         !.buckets[pos] = Inserted(b, s, key, value),
                         !.count = hash.count + 1]
            /\ ret' = 0
    /\ Ghost
    /\ DropCursor
    /\ UNCHANGED <<req, alive>>

(* hash_add_unique(hash, key, value) *)
hash_add_unique(key, value, ok) ==
    LET pos == Pos(hash, key)
        b0  == hash.buckets[pos]
        b   == IF NeedGrow(b0) THEN Grown(hash, b0) ELSE b0
        s   == LinearScan(key, b.entries, b.used)
    IN
    /\ alive
    /\ op' = Call("add_unique", key, value)
    /\ alloc' = ReallocResult(NeedGrow(b0), ok)
    /\ freed' = << >>
    /\ IF NeedGrow(b0) /\ ~ok
       THEN /\ ret' = 0 - ENOMEM
            /\ UNCHANGED hash
       ELSE IF s.why = "eq"
       THEN /\ hash' = [hash EXCEPT !.buckets[pos] = b]
            /\ ret' = 0 - EEXIST
       ELSE /\ hash' = [hash EXCEPT
                         !.buckets[pos] = Inserted(b, s, key, value),
                         !.count = hash.count + 1]
            /\ ret' = 0
    /\ Ghost
    /\ DropCursor
    /\ UNCHANGED <<req, alive>>

(* hash_find() searching one entry too few *)
Find_OneShort(h, key) ==
    LET b == h.buckets[Pos(h, key)]
        i == bsearch(Entry(key, NULL), b.entries, b.used - 1)
    IN  IF b.nil THEN NULL
        ELSE IF i < 0 THEN NULL ELSE At(b.entries, i).value

(* what hash_find(h, key) returns *)
Find(h, key) ==
    LET b == h.buckets[Pos(h, key)]
        i == bsearch(Entry(key, NULL), b.entries, b.used)
    IN  IF b.nil THEN NULL
        ELSE IF i < 0 THEN NULL ELSE At(b.entries, i).value

(* hash_find(hash, key); the callers make no lookup during a traversal *)
hash_find(key) ==
    /\ alive
    /\ it_state = "none"
    /\ op' = Call("find", key, NULL)
    /\ ret' = Find(hash, key)
    /\ freed' = << >>
    /\ alloc' = "none"
    /\ held' = NULL
    /\ UNCHANGED <<req, hash, alive, absmap, owed, iter, it_state, yielded>>

(* hash_del(hash, key) *)
hash_del(key, ok) ==
    LET pos == Pos(hash, key)
        b0  == hash.buckets[pos]
        i   == bsearch(Entry(key, NULL), b0.entries, b0.used)
        b1  == [b0 EXCEPT
                  !.entries = Forget(memmove(b0.entries, i, i + 1,
                                             b0.used - i - 1),
                                     b0.used - 1),
                  !.used = b0.used - 1]
        b2  == AfterShrink(hash, b1, ok)
    IN
    /\ alive
    /\ op' = Call("del", key, NULL)
    /\ alloc' = ReallocResult(~(b0.nil \/ i < 0) /\ NeedShrink(hash, b1), ok)
    /\ IF b0.nil \/ i < 0
       THEN /\ ret' = 0 - ENOENT
            /\ freed' = << >>
            /\ UNCHANGED hash
       ELSE /\ freed' = FreeValue(hash, At(b0.entries, i).value)
            /\ hash' = [hash EXCEPT !.buckets[pos] = b2,
                                    !.count = hash.count - 1]
            /\ ret' = 0
    /\ Ghost
    /\ DropCursor
    /\ UNCHANGED <<req, alive>>

(* hash_get_count(hash); not called during a traversal either *)
hash_get_count ==
    /\ alive
    /\ it_state = "none"
    /\ op' = Call("count", NULL, NULL)
    /\ ret' = hash.count
    /\ freed' = << >>
    /\ alloc' = "none"
    /\ held' = NULL
    /\ UNCHANGED <<req, hash, alive, absmap, owed, iter, it_state, yielded>>

(* hash_free(hash); the freed table is kept as it was at the call *)
hash_free ==
    /\ alive
    /\ alive' = FALSE
    /\ op' = Call("free", NULL, NULL)
    /\ ret' = 0
    /\ freed' = IF hash.free_value THEN ValuesFrom(hash, 0, 0) ELSE << >>
    /\ alloc' = "none"
    /\ Ghost
    /\ DropCursor
    /\ UNCHANGED <<req, hash>>

(* hash_iter_init() that sets iter->entry = 0 *)
hash_iter_init_Zero ==
    /\ alive
    /\ op' = Call("iter_init", NULL, NULL)
    /\ ret' = 0
    /\ freed' = << >>
    /\ iter' = [bucket |-> 0, entry |-> 0]
    /\ it_state' = "run"
    /\ yielded' = << >>
    /\ alloc' = "none"
    /\ held' = NULL
    /\ UNCHANGED <<req, hash, alive, absmap, owed>>

(* hash_iter_init(hash, iter) *)
hash_iter_init ==
    /\ alive
    /\ op' = Call("iter_init", NULL, NULL)
    /\ ret' = 0
    /\ freed' = << >>
    /\ iter' = [bucket |-> 0, entry |-> 0 - 1]
    /\ it_state' = "run"
    /\ yielded' = << >>
    /\ alloc' = "none"
    /\ held' = NULL
    /\ UNCHANGED <<req, hash, alive, absmap, owed>>

(* the for loop of hash_iter_next() breaking on used > 1 *)
NextUsed_SkipOne(h, bi) == FirstWith(h, bi, 1)

(* the for loop of hash_iter_next(): the first bucket at or after bi with  *)
(* used > 0, or n_buckets                                                  *)
NextUsed(h, bi) == FirstWith(h, bi, 0)

(* hash_iter_next(iter, &key, &value).  Once the end marker was returned   *)
(* iter->bucket == n_buckets, and a further call reads b->used one past    *)
(* the buckets array: big tells whether the word found there is larger     *)
(* than iter->entry, and the entry then read through b->entries is Junk.   *)
hash_iter_next(big) ==
    LET inb  == iter.bucket < hash.n_buckets
        e1   == iter.entry + 1
        used == IF inb THEN hash.buckets[iter.bucket].used
                ELSE IF big THEN e1 + 1 ELSE 0
        nb   == NextUsed(hash, iter.bucket + 1)
        done == IF it_state = "run" THEN "end" ELSE "past"
    IN
    /\ alive
    /\ it_state \in {"run", "end", "past"}
    /\ it_state # "run" =>
            (iter.bucket - hash.n_buckets) + iter.entry < MaxPast
    /\ op' = Call("iter_next", NULL, NULL)
    /\ freed' = << >>
    /\ alloc' = "none"
    /\ held' = NULL
    /\ UNCHANGED <<req, hash, alive, absmap, owed>>
    /\ IF e1 >= used
       THEN /\ iter' = [bucket |-> nb, entry |-> 0]
            /\ IF nb >= hash.n_buckets
               THEN /\ ret' = 0
                    /\ it_state' = done
                    /\ UNCHANGED yielded
               ELSE /\ ret' = 1
                    /\ yielded' =
                         Append(yielded, At(hash.buckets[nb].entries, 0))
                    /\ UNCHANGED it_state
       ELSE /\ iter' = [iter EXCEPT !.entry = e1]
            /\ ret' = 1
            /\ yielded' = Append(yielded,
                            IF inb THEN At(hash.buckets[iter.bucket].entries, e1)
                            ELSE Junk)
            /\ it_state' = IF inb THEN it_state ELSE "past"

-----------------------------------------------------------------------------
Next ==
    \/ \E k \in KeyPtrs, v \in Values, ok \in BOOLEAN : hash_add(k, v, ok)
    \/ \E k \in KeyPtrs, v \in Values, ok \in BOOLEAN : hash_add_unique(k, v, ok)
    \/ \E k \in KeyPtrs : hash_find(k)
    \/ \E k \in KeyPtrs, ok \in BOOLEAN : hash_del(k, ok)
    \/ hash_get_count
    \/ hash_iter_init
    \/ \E big \in BOOLEAN : hash_iter_next(big)
    \/ hash_free

Spec == Init /\ [][Next]_vars

(* The same calls on tables of every size class of hash_new() *)
Requests == {ReqSeq[i] : i \in 1..Len(ReqSeq)}

InitNew == Start(Requests)

NextNew ==
    \/ \E k \in 1..NewKeys, ok \in BOOLEAN : hash_add(k, 1, ok)
    \/ \E k \in 1..NewKeys, ok \in BOOLEAN : hash_add_unique(k, 1, ok)
    \/ \E k \in 1..NewKeys : hash_find(k)
    \/ \E k \in 1..NewKeys, ok \in BOOLEAN : hash_del(k, ok)
    \/ hash_get_count
    \/ hash_iter_init
    \/ \E big \in BOOLEAN : hash_iter_next(big)
    \/ hash_free

SpecNew == InitNew /\ [][NextNew]_vars

(* One bucket filled past its first step: a table of a single bucket and   *)
(* callers that pass more distinct strings than hash->step                 *)
InitFill == Start({1})

NextFill ==
    \/ \E k \in 1..FillKeys, ok \in BOOLEAN : hash_add(k, 1, ok)
    \/ \E k \in 1..FillKeys, ok \in BOOLEAN : hash_add_unique(k, 1, ok)
    \/ \E k \in 1..FillKeys, ok \in BOOLEAN : hash_del(k, ok)

SpecFill == InitFill /\ [][NextFill]_vars

TypeOK ==
    /\ alive \in BOOLEAN
    /\ it_state \in {"none", "run", "end", "past"}
    /\ hash.n_buckets \in 1..(2 * MaxReq + 1)

-----------------------------------------------------------------------------
(* Vocabulary of the properties *)

Buckets    == 0..(hash.n_buckets - 1)
BucketOf(k) == hash.buckets[Pos(hash, k)]
Mapped     == {s \in Strings : absmap[s] # NULL}
Mutators   == {"add", "add_unique", "del"}

RECURSIVE SumUsed(_, _)
SumUsed(h, i) ==
    IF i >= h.n_buckets THEN 0 ELSE h.buckets[i].used + SumUsed(h, i + 1)

-----------------------------------------------------------------------------
(* C1: after any sequence of add, add_unique and del calls, growths and    *)
(* shrinks of the buckets included, find(k) returns for every key k the    *)
(* value last stored under k's string by a successful add or add_unique    *)
(* and not deleted since, and NULL (absent) for every other key.           *)
C1_FindReturnsLastStored ==
    \A k \in KeyPtrs : Find(hash, k) = absmap[Str(k)]

(* find has returned a stored value from a bucket that was grown twice *)
C1_Witness ==
    /\ op.name = "find"
    /\ ret \in Values
    /\ BucketOf(op.key).total = 2 * hash.step
    /\ BucketOf(op.key).used = 3

(* C5: in every reachable state, whatever calls succeeded or failed,       *)
(* count() equals the sum of the used counts of all buckets and the number *)
(* of distinct keys currently mapped.                                      *)
C5_CountConsistent ==
    /\ hash.count = SumUsed(hash, 0)
    /\ hash.count = Cardinality(Mapped)
    /\ op.name = "count" => ret = Cardinality(Mapped)

(* count() has returned 3 for a table with entries in two buckets *)
C5_Witness ==
    /\ op.name = "count"
    /\ ret = 3
    /\ Cardinality({i \in Buckets : hash.buckets[i].used > 0}) = 2

(* C9: in every reachable state the first used entries of every bucket are *)
(* in strictly ascending byte-wise key order, and the binary search of     *)
(* find/del and the linear scan of add/add_unique agree on whether a key   *)
(* is present.                                                             *)
C9_Sorted ==
    /\ \A i \in Buckets :
         \A j \in 0..(hash.buckets[i].used - 2) :
            strcmp(Str(At(hash.buckets[i].entries, j).key),
                   Str(At(hash.buckets[i].entries, j + 1).key)) < 0
    /\ \A k \in KeyPtrs :
         (bsearch(Entry(k, NULL), BucketOf(k).entries, BucketOf(k).used) >= 0)
         <=> (LinearScan(k, BucketOf(k).entries, BucketOf(k).used).why = "eq")

(* an add has put its key in front of two greater keys *)
C9_Witness ==
    /\ op.name = "add"
    /\ ret = 0
    /\ BucketOf(op.key).used = 3
    /\ At(BucketOf(op.key).entries, 0).key = op.key

(* C10: in every reachable state every bucket has used <= capacity and a   *)
(* capacity that is zero or a positive multiple of the growth step, also   *)
(* after failed grow or shrink reallocations.                              *)
C10_Capacity ==
    \A i \in Buckets :
        /\ hash.buckets[i].used <= hash.buckets[i].total
        /\ hash.buckets[i].total % hash.step = 0
        /\ hash.buckets[i].total >= 0

(* a del whose shrink reallocation failed: two steps kept for two entries *)
C10_Witness ==
    /\ op.name = "del"
    /\ ret = 0
    /\ BucketOf(op.key).total = 2 * hash.step
    /\ BucketOf(op.key).used = 2

-----------------------------------------------------------------------------
(* the number of mapped strings whose value is v *)
LiveOcc(v) == Cardinality({s \in Mapped : absmap[s] = v})

(* C2: when add(k, v1) returns 0 and the next call add(k, v2), v2 # v1,    *)
(* returns 0, then find(k) returns v2, count() is what it was after the    *)
(* first add, and the second add has called the destructor, if one is      *)
(* set, exactly once, on v1.                                               *)
C2_Upsert ==
    [][ ( /\ op.name = "add" /\ ret = 0
          /\ op'.name = "add" /\ ret' = 0
          /\ Str(op'.key) = Str(op.key)
          /\ op'.value # op.value )
        => ( /\ Find(hash', op'.key) = op'.value
             /\ hash'.count = hash.count
             /\ freed' = IF hash.free_value THEN <<op.value>> ELSE << >> )
      ]_vars

(* an add has replaced another value and the destructor was called on it *)
C2_Witness ==
    /\ op.name = "add"
    /\ ret = 0
    /\ Len(freed) = 1
    /\ freed[1] # op.value
    /\ Find(hash, op.key) = op.value

(* C3 as claimed: add_unique on a mapped key returns -EEXIST, calls no     *)
(* destructor and leaves count() and find(k) as they were; add_unique on   *)
(* an unmapped key returns 0 and maps it.                                  *)
C3_AsClaimed ==
    [][ op'.name = "add_unique" =>
          IF absmap[Str(op'.key)] # NULL
          THEN /\ ret' = 0 - EEXIST
               /\ freed' = << >>
               /\ hash'.count = hash.count
               /\ Find(hash', op'.key) = absmap[Str(op'.key)]
          ELSE /\ ret' = 0
               /\ Find(hash', op'.key) = op'.value
      ]_vars

(* C3, amended: add_unique on a mapped key returns -EEXIST, or -ENOMEM     *)
(* when the growth check (used + 1 >= total) held at entry and its         *)
(* reallocation failed; either way it calls no destructor and leaves       *)
(* count() and find(k) as they were.  add_unique on an unmapped key        *)
(* returns 0 and maps it, or returns -ENOMEM under the same condition and  *)
(* leaves the key unmapped.                                                *)
C3_Unique ==
    [][ op'.name = "add_unique" =>
          LET b0   == BucketOf(op'.key)
              grow == b0.used + 1 >= b0.total
          IN  /\ ret' \in {0, 0 - EEXIST, 0 - ENOMEM}
              /\ ret' = 0 - ENOMEM => grow
              /\ freed' = << >>
              /\ IF absmap[Str(op'.key)] # NULL
                 THEN /\ ret' # 0
                      /\ hash'.count = hash.count
                      /\ Find(hash', op'.key) = absmap[Str(op'.key)]
                 ELSE /\ ret' # 0 - EEXIST
                      /\ ret' = 0 => /\ Find(hash', op'.key) = op'.value
                                     /\ hash'.count = hash.count + 1
                      /\ ret' # 0 => /\ Find(hash', op'.key) = NULL
                                     /\ hash'.count = hash.count
      ]_vars

(* add_unique has refused a key that is mapped to another value *)
C3_Witness ==
    /\ op.name = "add_unique"
    /\ ret = 0 - EEXIST
    /\ Find(hash, op.key) \in Values \ {op.value}

(* C4: del(k) on a mapped key returns 0, after it find(k) returns NULL,    *)
(* count() is one less and every other key maps to what it did; a second   *)
(* del(k) returns -ENOENT, and so does del on an empty table or on a       *)
(* bucket that never held entries.                                         *)
C4_Deletion ==
    [][ op'.name = "del" =>
          /\ IF absmap[Str(op'.key)] # NULL
             THEN /\ ret' = 0
                  /\ Find(hash', op'.key) = NULL
                  /\ hash'.count = hash.count - 1
             ELSE /\ ret' = 0 - ENOENT
                  /\ hash'.count = hash.count
          /\ \A k \in KeyPtrs :
                Str(k) # Str(op'.key) => Find(hash', k) = Find(hash, k)
          /\ (op.name = "del" /\ ret = 0 /\ Str(op.key) = Str(op'.key))
                => ret' = 0 - ENOENT
          /\ (hash.count = 0 \/ BucketOf(op'.key).nil) => ret' = 0 - ENOENT
      ]_vars

(* a del has removed one of three entries of a bucket *)
C4_Witness ==
    /\ op.name = "del"
    /\ ret = 0
    /\ BucketOf(op.key).used = 2
    /\ Find(hash, op.key) = NULL

(* C6: a traversal of an unmutated table, from init through repeated       *)
(* advance, yields only live (key, value) pairs and no key twice, and when *)
(* it returns the end marker it has yielded every live pair: exactly       *)
(* count() of them.                                                        *)
C6_IterationComplete ==
    it_state \in {"run", "end"} =>
        /\ \A i \in 1..Len(yielded) :
              /\ yielded[i].key \in KeyPtrs
              /\ absmap[Str(yielded[i].key)] = yielded[i].value
              /\ yielded[i].value # NULL
        /\ \A i, j \in 1..Len(yielded) :
              i # j => Str(yielded[i].key) # Str(yielded[j].key)
        /\ it_state = "end" =>
              /\ op.name = "iter_next" /\ ret = 0
              /\ Len(yielded) = hash.count
              /\ \A s \in Mapped :
                    \E i \in 1..Len(yielded) : Str(yielded[i].key) = s

(* a traversal over two non-empty buckets has ended after three entries *)
C6_Witness ==
    /\ it_state = "end"
    /\ Len(yielded) = 3
    /\ Cardinality({i \in Buckets : hash.buckets[i].used > 0}) = 2

(* C7: without a destructor no call ever invokes one.  With a destructor,  *)
(* the occurrences stored by successful calls and not yet destructed are   *)
(* at every moment exactly the values of the live entries (so no value is  *)
(* destructed twice), hash_free() on a table with N live entries invokes   *)
(* the destructor exactly N times, once on the value of each live entry,   *)
(* and after it nothing is left to destruct.                               *)
C7_DestructorDiscipline ==
    [][ /\ ~hash.free_value => freed' = << >>
        /\ hash.free_value =>
              /\ op'.name = "free" =>
                    /\ Len(freed') = hash.count
                    /\ \A v \in Values : Occ(freed', v) = LiveOcc(v)
                    /\ \A v \in Values : owed'[v] = 0
              /\ op'.name # "free" =>
                    \A v \in Values : owed'[v] = LiveOcc(v)'
      ]_vars

(* a table with a destructor was freed with three live entries *)
C7_Witness ==
    /\ ~alive
    /\ hash.free_value
    /\ Len(freed) = 3
    /\ hash.count = 3

(* C8 as claimed: every failing add, add_unique or del leaves the table    *)
(* exactly as it was: every bucket's entries, used and capacity, and the   *)
(* entry count.                                                            *)
C8_AsClaimed ==
    [][ (op'.name \in Mutators /\ ret' # 0) => hash' = hash ]_vars

(* C8, amended: every failing add, add_unique or del leaves every bucket's *)
(* entries and used count and the table's entry count as they were, and    *)
(* every capacity too, except that an add_unique that returns -EEXIST has  *)
(* grown the capacity of the key's bucket by one step when used + 1 >=     *)
(* capacity held at entry.                                                 *)
C8_FailedCallKeepsTable ==
    [][ (op'.name \in Mutators /\ ret' # 0) =>
          LET pos  == Pos(hash, op'.key)
              b0   == hash.buckets[pos]
              b1   == hash'.buckets[pos]
              grow == b0.used + 1 >= b0.total
          IN  IF op'.name = "add_unique" /\ ret' = 0 - EEXIST /\ grow
              THEN /\ hash'.count = hash.count
                   /\ \A i \in Buckets :
                         i # pos => hash'.buckets[i] = hash.buckets[i]
                   /\ b1.used = b0.used
                   /\ b1.total = b0.total + hash.step
                   /\ \A j \in 0..(b0.used - 1) :
                         At(b1.entries, j) = At(b0.entries, j)
              ELSE hash' = hash
      ]_vars

(* add_unique has failed on a mapped key of a bucket of two steps *)
C8_Witness ==
    /\ op.name = "add_unique"
    /\ ret = 0 - EEXIST
    /\ BucketOf(op.key).used = 3
    /\ BucketOf(op.key).total = 2 * hash.step

-----------------------------------------------------------------------------
Adders == {"add", "add_unique"}

(* C11: add and add_unique return -ENOMEM if and only if the growth check  *)
(* (used + 1 >= total) held at entry and the reallocation failed; the      *)
(* whole table is then as it was and no destructor is invoked.  add fails  *)
(* for no other reason.                                                    *)
C11_FailedGrowth ==
    [][ op'.name \in Adders =>
          LET b0 == BucketOf(op'.key)
          IN  /\ (ret' = 0 - ENOMEM) <=> (alloc' = "fail")
              /\ (alloc' # "none") <=> (b0.used + 1 >= b0.total)
              /\ ret' = 0 - ENOMEM => (hash' = hash /\ freed' = << >>)
              /\ op'.name = "add" => ret' \in {0, 0 - ENOMEM}
      ]_vars

(* an add has failed on a bucket with three entries in four slots *)
C11_Witness ==
    /\ op.name = "add"
    /\ ret = 0 - ENOMEM
    /\ alloc = "fail"
    /\ BucketOf(op.key).used = 3
    /\ BucketOf(op.key).total = hash.step

(* the live entries of a bucket, in array order *)
Live(b) == SubSeq(b.entries, 1, b.used)

(* a sequence without its element at C index i *)
Without(seq, i) == SubSeq(seq, 1, i) \o SubSeq(seq, i + 2, Len(seq))

(* the C index of the live entry of b whose key string is that of k *)
IndexOf(b, k) ==
    CHOOSE j \in 0..(b.used - 1) : Str(At(b.entries, j).key) = Str(k)

(* C12: when del(k) finds k and the shrink reallocation fails, del returns *)
(* 0, k is removed, used and count are one less, the destructor (if set)   *)
(* was invoked on the removed value, the surviving entries keep their      *)
(* order and values, and the bucket's capacity is unchanged.               *)
C12_FailedShrinkAbsorbed ==
    [][ (op'.name = "del" /\ alloc' = "fail") =>
          LET pos == Pos(hash, op'.key)
              b0  == hash.buckets[pos]
              b1  == hash'.buckets[pos]
          IN  /\ absmap[Str(op'.key)] # NULL
              /\ ret' = 0
              /\ Find(hash', op'.key) = NULL
              /\ b1.used = b0.used - 1
              /\ hash'.count = hash.count - 1
              /\ freed' = IF hash.free_value
                          THEN <<absmap[Str(op'.key)]>> ELSE << >>
              /\ Live(b1) = Without(Live(b0), IndexOf(b0, op'.key))
              /\ b1.total = b0.total
              /\ \A i \in Buckets :
                    i # pos => hash'.buckets[i] = hash.buckets[i]
      ]_vars

(* a del has removed the first of three entries and its shrink failed *)
C12_Witness ==
    /\ op.name = "del"
    /\ ret = 0
    /\ alloc = "fail"
    /\ BucketOf(op.key).used = 2
    /\ BucketOf(op.key).total = 2 * hash.step
    /\ Len(freed) = 1

(* C13: after a successful del, with used the bucket's count after the     *)
(* removal: if used / step + 1 < total / step and the reallocation         *)
(* succeeds, the capacity becomes (used / step + 1) * step; otherwise it   *)
(* is unchanged.  No call takes a bucket's capacity back to 0.             *)
C13_ShrinkPolicy ==
    [][ /\ (op'.name = "del" /\ ret' = 0) =>
              LET pos  == Pos(hash, op'.key)
                  b0   == hash.buckets[pos]
                  b1   == hash'.buckets[pos]
                  used == b0.used - 1
                  slack == (used \div hash.step) + 1 < b0.total \div hash.step
              IN  /\ (alloc' # "none") <=> slack
                  /\ b1.total = IF slack /\ alloc' = "ok"
                                THEN ((used \div hash.step) + 1) * hash.step
                                ELSE b0.total
        /\ (op'.name = "del" /\ ret' # 0) => alloc' = "none"
        /\ \A i \in Buckets :
              hash.buckets[i].total > 0 => hash'.buckets[i].total > 0
      ]_vars

(* a del has shrunk a bucket from two steps to one *)
C13_Witness ==
    /\ op.name = "del"
    /\ ret = 0
    /\ alloc = "ok"
    /\ BucketOf(op.key).used = 2
    /\ BucketOf(op.key).total = hash.step

(* C14: add and add_unique check the capacity before they search for the   *)
(* key: if used + 1 >= total at entry the capacity grows by exactly one    *)
(* step when the reallocation succeeds, otherwise it is unchanged; this    *)
(* does not depend on whether the key is already in the bucket.            *)
C14_GrowthPolicy ==
    [][ op'.name \in Adders =>
          LET pos  == Pos(hash, op'.key)
              b0   == hash.buckets[pos]
              b1   == hash'.buckets[pos]
              full == b0.used + 1 >= b0.total
          IN  /\ (alloc' # "none") <=> full
              /\ b1.total = IF full /\ alloc' = "ok"
                            THEN b0.total + hash.step ELSE b0.total
              /\ \A i \in Buckets :
                    i # pos => hash'.buckets[i].total = hash.buckets[i].total
      ]_vars

(* add_unique has grown the bucket and then found its key in it *)
C14_Witness ==
    /\ op.name = "add_unique"
    /\ ret = 0 - EEXIST
    /\ alloc = "ok"
    /\ BucketOf(op.key).total = 2 * hash.step

-----------------------------------------------------------------------------
(* the live entries of buckets bi .. n_buckets - 1, bucket by bucket, each *)
(* bucket in the order of its entry array                                  *)
RECURSIVE LiveFrom(_, _)
LiveFrom(h, bi) ==
    IF bi >= h.n_buckets THEN << >>
    ELSE Live(h.buckets[bi]) \o LiveFrom(h, bi + 1)

(* C15: during a traversal of an unmutated table the entries yielded so    *)
(* far are the first ones of the bucket-major list of the live entries, so *)
(* they come in non-decreasing bucket index and, within one bucket, in     *)
(* strictly ascending byte-wise key order; the end marker is returned only *)
(* when the whole list, up to the last entry of the last non-empty bucket, *)
(* has been yielded.                                                       *)
C15_IterationOrder ==
    it_state \in {"run", "end"} =>
        /\ Len(yielded) <= Len(LiveFrom(hash, 0))
        /\ yielded = SubSeq(LiveFrom(hash, 0), 1, Len(yielded))
        /\ \A i, j \in 1..Len(yielded) :
              i < j =>
                 /\ Pos(hash, yielded[i].key) <= Pos(hash, yielded[j].key)
                 /\ Pos(hash, yielded[i].key) = Pos(hash, yielded[j].key)
                       => strcmp(Str(yielded[i].key), Str(yielded[j].key)) < 0
        /\ it_state = "end" => yielded = LiveFrom(hash, 0)
        /\ (op.name = "iter_next" /\ ret = 0) => it_state = "end"

(* a traversal that skipped the empty bucket 0 and ended after the only    *)
(* entry of bucket 1                                                       *)
C15_Witness ==
    /\ it_state = "end"
    /\ hash.n_buckets = 2
    /\ hash.buckets[0].used = 0
    /\ hash.buckets[1].used = 1
    /\ yielded = Live(hash.buckets[1])

-----------------------------------------------------------------------------
(* the positions of the bucket-major list of live entries that hold the    *)
(* bytes of key                                                            *)
SlotsOf(h, key) ==
    {i \in 1..Len(LiveFrom(h, 0)) : Str(LiveFrom(h, 0)[i].key) = Str(key)}

(* C16: after a successful add(k', v) exactly one live entry holds the     *)
(* bytes of k', and it is (k', v): when a key reference k with the same    *)
(* bytes was held before, no entry holds k any more unless k = k'.  An     *)
(* add_unique that fails with -EEXIST leaves every live entry, key         *)
(* reference and value, as it was.  A traversal yields the entries with    *)
(* the key references the table holds.                                     *)
C16_KeyReplaced ==
    [][ /\ (op'.name = "add" /\ ret' = 0) =>
              /\ Cardinality(SlotsOf(hash', op'.key)) = 1
              /\ \A i \in SlotsOf(hash', op'.key) :
                    LiveFrom(hash', 0)[i] = Entry(op'.key, op'.value)
              /\ (held' # NULL /\ held' # op'.key) =>
                    \A i \in 1..Len(LiveFrom(hash', 0)) :
                        LiveFrom(hash', 0)[i].key # held'
              /\ held' = HeldKey(hash, op'.key)
        /\ (op'.name = "add_unique" /\ ret' = 0 - EEXIST) =>
              /\ held' # NULL
              /\ HeldKey(hash', op'.key) = held'
              /\ LiveFrom(hash', 0) = LiveFrom(hash, 0)
        /\ (op'.name = "iter_next" /\ ret' = 1 /\ it_state' = "run") =>
              \E i \in 1..Len(LiveFrom(hash', 0)) :
                  LiveFrom(hash', 0)[i] = yielded'[Len(yielded')]
      ]_vars

(* add() through the pointer 3 has replaced the entry that held the equal  *)
(* bytes through the pointer 1, and called the destructor on its value     *)
C16_Witness ==
    /\ op.name = "add" /\ ret = 0
    /\ op.key = 3 /\ held = 1
    /\ HeldKey(hash, 1) = 3
    /\ Len(freed) = 1

-----------------------------------------------------------------------------
RECURSIVE IsPow2(_)
IsPow2(n) == n = 1 \/ (n > 1 /\ n % 2 = 0 /\ IsPow2(n \div 2))

(* the table has the bucket count and the growth step the request calls for *)
Created(h) ==
    /\ IsPow2(h.n_buckets)
    /\ h.n_buckets >= req
    /\ h.n_buckets > 1 => h.n_buckets \div 2 < req
    /\ DOMAIN h.buckets = 0..(h.n_buckets - 1)
    /\ h.step \in MinStep..MaxStep
    /\ \/ h.step = h.n_buckets \div StepDiv
       \/ h.n_buckets \div StepDiv < MinStep /\ h.step = MinStep
       \/ h.n_buckets \div StepDiv > MaxStep /\ h.step = MaxStep

(* C17: hash_new(n, ...) yields a table with count 0 whose buckets all     *)
(* have used 0 and total 0, whose n_buckets is the smallest power of two   *)
(* >= n (1 for n = 0) and whose step is n_buckets / 32 clamped to 4..64;   *)
(* no later add, add_unique, del, find, count, iteration or free changes   *)
(* n_buckets or step.                                                      *)
C17_Creation ==
    [][ /\ Created(hash) /\ Created(hash')
        /\ hash'.n_buckets = hash.n_buckets
        /\ hash'.step = hash.step
        /\ op.name = "new" =>
              /\ hash.count = 0
              /\ \A i \in DOMAIN hash.buckets : hash.buckets[i] = EmptyBucket
      ]_vars

(* a table asked for with BigReq buckets, step clamped from above, after   *)
(* an add has grown one of its buckets                                     *)
C17_Witness ==
    /\ req = BigReq
    /\ hash.n_buckets \div StepDiv > MaxStep
    /\ hash.step = MaxStep
    /\ op.name = "add" /\ ret = 0
    /\ hash.count = 1
    /\ \E i \in DOMAIN hash.buckets : hash.buckets[i].total = MaxStep

-----------------------------------------------------------------------------
(* C18: in every reachable state a bucket's entry array has exactly total  *)
(* slots, a bucket with total > 0 has used < total, so at least one spare  *)
(* slot, and a bucket with total = 0 has no entries: the slot that add or  *)
(* add_unique shifts the tail into and writes lies inside the array, also  *)
(* after del has shrunk the bucket or failed to.                           *)
C18_SpareSlot ==
    \A i \in DOMAIN hash.buckets :
        LET b == hash.buckets[i] IN
        /\ Len(b.entries) = b.total
        /\ b.total > 0 => b.used < b.total
        /\ b.total = 0 => b.used = 0
        /\ b.nil => b.total = 0

(* an add of a new key that found the bucket with one spare slot left: the *)
(* bucket grew by one step and then took its entry number step            *)
C18_Witness ==
    /\ op.name \in Adders /\ ret = 0
    /\ alloc = "ok" /\ held = NULL
    /\ hash.buckets[0].used = hash.step
    /\ hash.buckets[0].total = 2 * hash.step

-----------------------------------------------------------------------------
(* C19, as claimed: once hash_iter_next() has returned false, every        *)
(* further call on the same iterator returns false again, yields no entry  *)
(* and reads no bucket at an index >= n_buckets.  The code does not do     *)
(* this: the call that returns false leaves iter->bucket == n_buckets, and *)
(* the next call reads b->used through buckets + iter->bucket before any   *)
(* range check, so it reads one struct past the array and returns whatever *)
(* that memory makes it return.                                            *)
C19_AsClaimed ==
    [][ (it_state \in {"end", "past"} /\ op'.name = "iter_next") =>
            /\ iter.bucket < hash.n_buckets
            /\ ret' = 0
            /\ yielded' = yielded
      ]_vars

-----------------------------------------------------------------------------
(* C20: in every reachable state every live entry lies in the bucket whose *)
(* index is hash_superfast(key bytes) & (n_buckets - 1); the index that    *)
(* add, add_unique, find and del compute for a key is below n_buckets and  *)
(* is the same for key pointers with identical bytes; so no string is held *)
(* by more than one live entry of the table.                               *)
C20_Placement ==
    /\ \A i \in Buckets :
         \A j \in 1..hash.buckets[i].used :
            i = ToNat(BitAnd(HashVal[hash.buckets[i].entries[j].key],
                             Word(hash.n_buckets - 1)))
    /\ \A k \in KeyPtrs : Pos(hash, k) \in Buckets
    /\ \A k1, k2 \in KeyPtrs :
         Str(k1) = Str(k2) => Pos(hash, k1) = Pos(hash, k2)
    /\ \A k \in KeyPtrs : Cardinality(SlotsOf(hash, k)) <= 1

(* in a table whose two buckets both hold entries, del() called with the   *)
(* pointer 3 has removed the entry stored through the pointer 1            *)
C20_Witness ==
    /\ hash.n_buckets = 2
    /\ hash.buckets[1].used > 0
    /\ hash.buckets[0].used > 0
    /\ op.name = "del" /\ ret = 0
    /\ op.key = 3 /\ held = 1

====
